---- MODULE Spec2Model ----
(***************************************************************************)
(* Model of Ska/astro.py: the Equatorial class (construction from 2 or 6   *)
(* numeric tokens, the ra_hms / dec_dms / __str__ renderings, the delim    *)
(* attribute) and the sph_dist function.                                   *)
(*                                                                         *)
(* Python floats are modelled as exact rationals [n, d] in lowest terms:   *)
(* every arithmetic step of the source is carried out exactly, so IEEE     *)
(* rounding error (of the order of 1e-13 in these computations) and the    *)
(* sign of a negative zero are outside the model.  Strings are sequences   *)
(* of one-character strings, so that rendering and parsing are computed    *)
(* character by character.                                                 *)
(***************************************************************************)
EXTENDS Integers, Sequences, FiniteSets, TLC

(***************************************************************************)
(* Exact rational arithmetic (the float operations of the source).         *)
(***************************************************************************)
Abs(x) == IF x < 0 THEN -x ELSE x

RECURSIVE GCD(_, _)
GCD(a, b) == IF b = 0 THEN a ELSE GCD(b, a % b)

Rat(n, d) == LET g == GCD(Abs(n), d) IN [n |-> n \div g, d |-> d \div g]

RInt(k) == [n |-> k, d |-> 1]

RNeg(a) == [n |-> -a.n, d |-> a.d]

RAbs(a) == [n |-> Abs(a.n), d |-> a.d]

RFloor(a) == a.n \div a.d

\* a + b, computed on whole and fractional parts so that the numerators stay small.
RAdd(a, b) ==
    LET g  == GCD(a.d, b.d)
        L  == (a.d \div g) * b.d
        wa == a.n \div a.d
        wb == b.n \div b.d
        fa == a.n % a.d
        fb == b.n % b.d
    IN  Rat((wa + wb) * L + fa * (L \div a.d) + fb * (L \div b.d), L)

RSub(a, b) == RAdd(a, RNeg(b))

RMulInt(a, k) == LET g == GCD(Abs(k), a.d) IN Rat(a.n * (k \div g), a.d \div g)

RDivInt(a, k) == LET g == GCD(Abs(a.n), k) IN Rat(a.n \div g, a.d * (k \div g))

RLt(a, b) == RSub(a, b).n < 0

RLe(a, b) == RSub(a, b).n <= 0

RECURSIVE Pow10(_)
Pow10(k) == IF k = 0 THEN 1 ELSE 10 * Pow10(k - 1)

(***************************************************************************)
(* Characters and strings.                                                 *)
(***************************************************************************)
Digits == <<"0", "1", "2", "3", "4", "5", "6", "7", "8", "9">>

DigitSet == {Digits[i] : i \in 1..10}

DigitVal(c) == (CHOOSE i \in 1..10 : Digits[i] = c) - 1

RECURSIVE NatStr(_)
NatStr(n) == IF n < 10 THEN <<Digits[n + 1]>>
             ELSE NatStr(n \div 10) \o <<Digits[(n % 10) + 1]>>

RECURSIVE ZeroPad(_, _)
ZeroPad(s, w) == IF Len(s) >= w THEN s ELSE ZeroPad(<<"0">> \o s, w)

RECURSIVE DigitsVal(_)
DigitsVal(s) == IF Len(s) = 0 THEN 0
                ELSE 10 * DigitsVal(SubSeq(s, 1, Len(s) - 1)) + DigitVal(s[Len(s)])

AllDigits(s) == \A i \in 1..Len(s) : s[i] \in DigitSet

\* str.strip(): leading and trailing whitespace removed.
RECURSIVE Strip(_)
Strip(s) == IF Len(s) = 0 THEN s
            ELSE IF s[1] = " " THEN Strip(Tail(s))
            ELSE IF s[Len(s)] = " " THEN Strip(SubSeq(s, 1, Len(s) - 1))
            ELSE s

\* sep.join(parts)
RECURSIVE Join(_, _)
Join(sep, parts) == IF Len(parts) = 0 THEN <<>>
                    ELSE IF Len(parts) = 1 THEN parts[1]
                    ELSE parts[1] \o sep \o Join(sep, Tail(parts))

\* str.split(): the maximal runs of non-whitespace characters.
RECURSIVE SplitFrom(_, _)
SplitFrom(s, cur) ==
    IF Len(s) = 0 THEN (IF Len(cur) = 0 THEN <<>> ELSE <<cur>>)
    ELSE IF s[1] = " "
         THEN (IF Len(cur) = 0 THEN <<>> ELSE <<cur>>) \o SplitFrom(Tail(s), <<>>)
         ELSE SplitFrom(Tail(s), Append(cur, s[1]))

Split(s) == SplitFrom(s, <<>>)

(***************************************************************************)
(* Number <-> text conversions: float(), int(), str() and the % formats.   *)
(***************************************************************************)
Signed(tok) == Len(tok) > 0 /\ tok[1] \in {"-", "+"}

Unsigned(tok) == IF Signed(tok) THEN Tail(tok) ELSE tok

DotAt(s) == IF \E i \in 1..Len(s) : s[i] = "." 
            THEN CHOOSE i \in 1..Len(s) : s[i] = "." /\ \A j \in 1..(i - 1) : s[j] # "."
            ELSE 0

\* int(tok): an optional sign and at least one decimal digit; anything else is a
\* ValueError (ok = FALSE).
ParseInt(tok) ==
    LET u == Unsigned(tok)
    IN  IF Len(u) > 0 /\ AllDigits(u)
        THEN [ok |-> TRUE, v |-> IF tok[1] = "-" THEN -DigitsVal(u) ELSE DigitsVal(u)]
        ELSE [ok |-> FALSE, v |-> 0]

\* float(tok) for decimal literals without exponent: an optional sign, digits with
\* at most one point, at least one digit; anything else is a ValueError.
ParseFloat(tok) ==
    LET u   == Unsigned(tok)
        p   == DotAt(u)
        ip  == IF p = 0 THEN u ELSE SubSeq(u, 1, p - 1)
        fp  == IF p = 0 THEN <<>> ELSE SubSeq(u, p + 1, Len(u))
        mag == Rat(DigitsVal(ip) * Pow10(Len(fp)) + DigitsVal(fp), Pow10(Len(fp)))
    IN  IF AllDigits(ip) /\ AllDigits(fp) /\ Len(ip) + Len(fp) > 0
        THEN [ok |-> TRUE, v |-> IF tok[1] = "-" THEN RNeg(mag) ELSE mag]
        ELSE [ok |-> FALSE, v |-> RInt(0)]

IntStr(i) == IF i < 0 THEN <<"-">> \o NatStr(-i) ELSE NatStr(i)

\* The number of decimals of the exact decimal expansion of a rational whose
\* denominator divides a power of ten.
DecimalsOf(r) == CHOOSE k \in 0..9 : Pow10(k) % r.d = 0 /\ \A j \in 0..(k - 1) : Pow10(j) % r.d # 0

\* str(x) of a float: the shortest decimal that reads back as x, with ".0" for an
\* integral value (positional notation, as Python prints for 1e-4 <= |x| < 1e16).
FloatStr(r) ==
    LET k  == DecimalsOf(r)
        m  == Abs(r.n) * (Pow10(k) \div r.d)
        ip == NatStr(m \div Pow10(k))
        fp == IF k = 0 THEN <<"0">> ELSE ZeroPad(NatStr(m % Pow10(k)), k)
    IN  (IF r.n < 0 THEN <<"-">> ELSE <<>>) \o ip \o <<".">> \o fp

\* The nearest integer to a non-negative rational, ties to even (printf rounding of
\* the exact value).
RoundHalfEven(q) ==
    LET f   == q.n \div q.d
        rem == q.n % q.d
    IN  IF 2 * rem > q.d THEN f + 1
        ELSE IF 2 * rem < q.d THEN f
        ELSE IF f % 2 = 0 THEN f ELSE f + 1

\* sign, then zeros up to the field width, then the digits ("%0W..." formats).
SignPad(neg, body, width) ==
    IF neg THEN <<"-">> \o ZeroPad(body, width - 1) ELSE ZeroPad(body, width)

\* "%0<width>.<prec>f" % x
FormatF(x, width, prec) ==
    LET m    == RoundHalfEven(RMulInt(RAbs(x), Pow10(prec)))
        body == NatStr(m \div Pow10(prec)) \o <<".">> \o ZeroPad(NatStr(m % Pow10(prec)), prec)
    IN  SignPad(x.n < 0, body, width)

\* "%0<width>d" % i
FormatD(i, width) == SignPad(i < 0, NatStr(Abs(i)), width)

(***************************************************************************)
(* Constructor arguments: a string, an int or a float.                     *)
(***************************************************************************)
S(chars) == [t |-> "str", s |-> chars, i |-> 0, f |-> RInt(0)]

I(k) == [t |-> "int", s |-> <<>>, i |-> k, f |-> RInt(0)]

F(n, d) == [t |-> "float", s |-> <<>>, i |-> 0, f |-> Rat(n, d)]

\* str(x)
PyStr(x) == IF x.t = "str" THEN x.s ELSE IF x.t = "int" THEN IntStr(x.i) ELSE FloatStr(x.f)

Separators == {",", ":", "d", "h", "m", "s"}

\* re.sub(r'[,:dhms]', ' ', argstr)
ReSub(s) == [i \in 1..Len(s) |-> IF s[i] \in Separators THEN " " ELSE s[i]]

\* The tokenizer with the arguments joined without the space.
Tokenize_NoSpace(args) ==
    Split(ReSub(Join(<<>>, [i \in 1..Len(args) |-> Strip(PyStr(args[i]))])))

\* Lines 45-47: join the stripped str() of the arguments with spaces, blank the
\* separators, split on whitespace.
Tokenize(args) ==
    Split(ReSub(Join(<<" ">>, [i \in 1..Len(args) |-> Strip(PyStr(args[i]))])))

(***************************************************************************)
(* Equatorial.__init__                                                     *)
(***************************************************************************)
StoredAttrs == {"ra", "dec", "rah", "ram", "ras", "decsign", "decd", "decm", "decs", "ra0"}

\* An object none of whose attributes is set yet.
NoObj == [attrs |-> {}, delim |-> <<>>, ra |-> RInt(0), dec |-> RInt(0), ra0 |-> RInt(0),
          rah |-> 0, ram |-> 0, ras |-> RInt(0), decsign |-> "+",
          decd |-> 0, decm |-> 0, decs |-> RInt(0)]

\* Line 44: self.delim = ':'
SelfWithDelim == [NoObj EXCEPT !.attrs = {"delim"}, !.delim = <<":">>]

Raised(exc, msg, self) == [raised |-> TRUE, exc |-> exc, msg |-> msg, self |-> self]

\* Line 81-84: ra0 from the final ra, then the ten attributes are set on self.
SetAttrs(self, ra, dec, rah, ram, ras, decsign, decd, decm, decs) ==
    LET ra0 == RSub(ra, RInt(IF RLt(RInt(180), ra) THEN 360 ELSE 0))
    IN  [raised |-> FALSE, exc |-> "", msg |-> <<>>,
         self |-> [attrs |-> self.attrs \cup StoredAttrs, delim |-> self.delim,
                   ra |-> ra, dec |-> dec, ra0 |-> ra0,
                   rah |-> rah, ram |-> ram, ras |-> ras, decsign |-> decsign,
                   decd |-> decd, decm |-> decm, decs |-> decs]]

\* Lines 50-62: the decimal pair.
TwoTokens(self, ra_in, dec_in) ==
    LET ra      == RSub(ra_in, RInt(RFloor(RDivInt(ra_in, 360)) * 360))
        ra15    == RDivInt(ra, 15)
        rah     == RFloor(ra15)
        ram     == RFloor(RMulInt(RSub(ra15, RInt(rah)), 60))
        ras     == RMulInt(RMulInt(RSub(RSub(ra15, RInt(rah)), RDivInt(RInt(ram), 60)), 60), 60)
        decsign == IF dec_in.n < 0 THEN "-" ELSE "+"
        absdec  == RAbs(dec_in)
        decd    == RFloor(absdec)
        decm    == RFloor(RMulInt(RSub(absdec, RInt(decd)), 60))
        decs    == RMulInt(RMulInt(RSub(RSub(absdec, RInt(decd)), RDivInt(RInt(decm), 60)), 60), 60)
    IN  SetAttrs(self, ra, dec_in, rah, ram, ras, decsign, decd, decm, decs)

\* The six-component form with the sign taken from the value of the degree token.
SixTokens_SignOfInt(self, rah, ram, ras, signtok, decd_in, decm, decs) ==
    LET decsign == IF decd_in < 0 THEN "-" ELSE "+"
        decd    == Abs(decd_in)
        ra      == RMulInt(RAdd(RAdd(RInt(rah), RDivInt(RInt(ram), 60)), RDivInt(ras, 3600)), 15)
        absd    == RAdd(RAdd(RInt(Abs(decd)), RDivInt(RInt(decm), 60)), RDivInt(decs, 3600))
        dec     == IF decsign = "-" THEN RNeg(absd) ELSE absd
    IN  SetAttrs(self, ra, dec, rah, ram, ras, decsign, decd, decm, decs)

\* Lines 65-77: the six sexagesimal components.
SixTokens(self, rah, ram, ras, signtok, decd_in, decm, decs) ==
    LET decsign == IF Len(signtok) > 0 /\ signtok[1] = "-" THEN "-" ELSE "+"
        decd    == Abs(decd_in)
        ra      == RMulInt(RAdd(RAdd(RInt(rah), RDivInt(RInt(ram), 60)), RDivInt(ras, 3600)), 15)
        absd    == RAdd(RAdd(RInt(Abs(decd)), RDivInt(RInt(decm), 60)), RDivInt(decs, 3600))
        dec     == IF decsign = "-" THEN RNeg(absd) ELSE absd
    IN  SetAttrs(self, ra, dec, rah, ram, ras, decsign, decd, decm, decs)

\* The first token of toks that the parser at its position rejects, or 0.
FirstBad(toks, isInt) ==
    LET bad(i) == IF isInt[i] THEN ~ParseInt(toks[i]).ok ELSE ~ParseFloat(toks[i]).ok
    IN  IF \E i \in 1..Len(toks) : bad(i)
        THEN CHOOSE i \in 1..Len(toks) : bad(i) /\ \A j \in 1..(i - 1) : ~bad(j)
        ELSE 0

\* Lines 43-84.  The result is what __init__ leaves behind: whether it raised
\* (and what), and self as far as it was initialised.
Equatorial_init(args) ==
    LET self == SelfWithDelim
        toks == Tokenize(args)
    IN  IF Len(toks) = 2 THEN
            LET b == FirstBad(toks, <<FALSE, FALSE>>)
            IN  IF b # 0 THEN Raised("ValueError", <<toks[b]>>, self)
                ELSE TwoTokens(self, ParseFloat(toks[1]).v, ParseFloat(toks[2]).v)
        ELSE IF Len(toks) = 6 THEN
            LET b == FirstBad(toks, <<TRUE, TRUE, FALSE, TRUE, TRUE, FALSE>>)
            IN  IF b # 0 THEN Raised("ValueError", <<toks[b]>>, self)
                ELSE SixTokens(self, ParseInt(toks[1]).v, ParseInt(toks[2]).v,
                               ParseFloat(toks[3]).v, toks[4], ParseInt(toks[4]).v,
                               ParseInt(toks[5]).v, ParseFloat(toks[6]).v)
        ELSE Raised("ValueError", toks, self)

\* A constructor that returns instead of raising.
Equatorial_Swallow(args) ==
    [kind |-> "object", exc |-> "", msg |-> <<>>, self |-> Equatorial_init(args).self]

\* Equatorial(*args) as the caller sees it: the initialised object, or the
\* exception, in which case the object under construction is dropped.
Equatorial(args) ==
    LET r == Equatorial_init(args)
    IN  IF r.raised THEN [kind |-> "raised", exc |-> r.exc, msg |-> r.msg, self |-> NoObj]
        ELSE [kind |-> "object", exc |-> "", msg |-> <<>>, self |-> r.self]

(***************************************************************************)
(* Renderings.  Each getter yields the text it returns and self as the     *)
(* call leaves it.                                                         *)
(***************************************************************************)
\* Lines 91-93, 95-97, 107-109, 111-113: a field that shows as its full count is
\* shown as zero and one is carried into the local copy of the next field.
Rollover_NoCarry(text, full, zero, parent) ==
    IF text = full THEN [text |-> zero, parent |-> parent]
    ELSE [text |-> text, parent |-> parent]

Rollover(text, full, zero, parent) ==
    IF text = full THEN [text |-> zero, parent |-> parent + 1]
    ELSE [text |-> text, parent |-> parent]

\* Lines 99-100: hour 24 is shown as 00.
HourWrap_None(s_rah) == s_rah

HourWrap(s_rah) == IF s_rah = <<"2", "4">> THEN <<"0", "0">> ELSE s_rah

\* The getter with the carries written back to the object.
get_ra_hms_WriteBack(self) ==
    LET sec  == Rollover(FormatF(self.ras, 6, 3), <<"6", "0", ".", "0", "0", "0">>,
                         <<"0", "0", ".", "0", "0", "0">>, self.ram)
        min  == Rollover(FormatD(sec.parent, 2), <<"6", "0">>, <<"0", "0">>, self.rah)
    IN  [self |-> [self EXCEPT !.ram = sec.parent, !.rah = min.parent],
         text |-> Join(self.delim, <<HourWrap(FormatD(min.parent, 2)), min.text, sec.text>>)]

\* Lines 88-101: ram and rah are local copies; self is only read.
get_ra_hms(self) ==
    LET sec   == Rollover(FormatF(self.ras, 6, 3), <<"6", "0", ".", "0", "0", "0">>,
                          <<"0", "0", ".", "0", "0", "0">>, self.ram)
        min   == Rollover(FormatD(sec.parent, 2), <<"6", "0">>, <<"0", "0">>, self.rah)
        s_rah == HourWrap(FormatD(min.parent, 2))
    IN  [self |-> self, text |-> Join(self.delim, <<s_rah, min.text, sec.text>>)]

\* Lines 104-115
get_dec_dms(self) ==
    LET sec    == Rollover(FormatF(self.decs, 5, 2), <<"6", "0", ".", "0", "0">>,
                           <<"0", "0", ".", "0", "0">>, self.decm)
        min    == Rollover(FormatD(sec.parent, 2), <<"6", "0">>, <<"0", "0">>, self.decd)
        s_decd == FormatD(min.parent, 2)
    IN  [self |-> self,
         text |-> <<self.decsign>> \o Join(self.delim, <<s_decd, min.text, sec.text>>)]

\* Lines 119-121: 'RA, Dec = %.5f, %.4f = %s, %s'
Equatorial_str(self) ==
    LET h == get_ra_hms(self)
        d == get_dec_dms(h.self)
    IN  [self |-> d.self,
         text |-> <<"R", "A", ",", " ", "D", "e", "c", " ", "=", " ">>
                  \o FormatF(self.ra, 0, 5) \o <<",", " ">> \o FormatF(self.dec, 0, 4)
                  \o <<" ", "=", " ">> \o h.text \o <<",", " ">> \o d.text]

(***************************************************************************)
(* sph_dist.  A value is a Python scalar ("py"), a numpy scalar ("np") or  *)
(* a one-dimensional ndarray ("nd"); v holds its elements (one for a       *)
(* scalar).  Angles in radians are kept as their exact multiple of pi, and *)
(* the trigonometric functions are given on the angles where their values  *)
(* are rational: right ascensions that are multiples of 60 degrees and     *)
(* declinations of -90, 0 and 90 degrees keep every intermediate there.    *)
(***************************************************************************)
RMul(a, b) == Rat(a.n * b.n, a.d * b.d)

Py(x) == [kind |-> "py", v |-> <<RInt(x)>>]

Nd(xs) == [kind |-> "nd", v |-> [i \in 1..Len(xs) |-> RInt(xs[i])]]

\* isinstance(x, np.ndarray)
IsNdarray(x) == x.kind = "nd"

Max(a, b) == IF a >= b THEN a ELSE b

\* numpy broadcasting of one-dimensional shapes: equal lengths, or one of them 1.
Broadcastable(x, y) == Len(x.v) = Len(y.v) \/ Len(x.v) = 1 \/ Len(y.v) = 1

Elem(x, i) == IF Len(x.v) = 1 THEN x.v[1] ELSE x.v[i]

KindOf(x, y) == IF IsNdarray(x) \/ IsNdarray(y) THEN "nd" ELSE "np"

\* The result of a unary ufunc on x with elements v: an ndarray for an ndarray, a
\* numpy scalar otherwise.
Ufunc1(x, v) == [kind |-> KindOf(x, x), v |-> v]

\* The result of a binary ufunc (or operator) on the broadcast operands x and y.
Ufunc2(x, y, v) == [kind |-> KindOf(x, y), v |-> v]

Idx(x) == 1..Len(x.v)

Idx2(x, y) == 1..Max(Len(x.v), Len(y.v))

\* The fraction c of a turn of 2 pi that the angle c*pi is, reduced to [0, 2).
Mod2(c) == RSub(c, RInt(2 * RFloor(RDivInt(c, 2))))

\* np.sin(x)**2 at x = c*pi, for the multiples of pi/6 and pi/4.
SinSquared(c) ==
    LET m == Mod2(c)
        r == IF RLt(m, RInt(1)) THEN m ELSE RSub(m, RInt(1))
    IN  CASE r = Rat(0, 1) -> Rat(0, 1)
          [] r \in {Rat(1, 6), Rat(5, 6)} -> Rat(1, 4)
          [] r \in {Rat(1, 4), Rat(3, 4)} -> Rat(1, 2)
          [] r \in {Rat(1, 3), Rat(2, 3)} -> Rat(3, 4)
          [] r = Rat(1, 2) -> Rat(1, 1)

\* np.cos(x) at x = c*pi, for the multiples of pi/3 and pi/2.
Cos(c) ==
    LET m == Mod2(c)
    IN  CASE m = Rat(0, 1) -> Rat(1, 1)
          [] m \in {Rat(1, 3), Rat(5, 3)} -> Rat(1, 2)
          [] m \in {Rat(1, 2), Rat(3, 2)} -> Rat(0, 1)
          [] m \in {Rat(2, 3), Rat(4, 3)} -> Rat(-1, 2)
          [] m = Rat(1, 1) -> Rat(-1, 1)

\* np.arcsin(np.sqrt(h)) as a multiple of pi, where that is rational.
ArcsinSqrt(h) ==
    CASE h = Rat(0, 1) -> Rat(0, 1)
      [] h = Rat(1, 4) -> Rat(1, 6)
      [] h = Rat(1, 2) -> Rat(1, 4)
      [] h = Rat(3, 4) -> Rat(1, 3)
      [] h = Rat(1, 1) -> Rat(1, 2)

\* np.radians(x): degrees to radians (as a multiple of pi).
Radians(x) == RDivInt(x, 180)

\* np.degrees(x)
Degrees(c) == RMulInt(c, 180)

\* Lines 144-145: np.sin(theta/2)**2
haversine(theta) == Ufunc1(theta, [i \in Idx(theta) |-> SinSquared(RDivInt(theta.v[i], 2))])

\* Line 155, one element: |h| > 1 is replaced by sign(h).
Clamp(h) == IF RLt(RInt(1), RAbs(h)) THEN RInt(IF h.n < 0 THEN -1 ELSE 1) ELSE h

\* dist.tolist(): a Python scalar from a numpy scalar, a list from an ndarray.
ToList(x) == [kind |-> IF x.kind = "nd" THEN "list" ELSE "py", v |-> x.v]

\* ndarray computed from the first position only.
AnyNdarray_FirstPairOnly(a1, d1, a2, d2) == IsNdarray(a1) \/ IsNdarray(d1)

\* Line 147
AnyNdarray(a1, d1, a2, d2) == \E x \in {a1, d1, a2, d2} : IsNdarray(x)

BroadcastError == [kind |-> "raised", v |-> <<>>]

\* np.radians(x)
np_radians(x) == Ufunc1(x, [i \in Idx(x) |-> Radians(x.v[i])])

\* np.cos(x)
np_cos(x) == Ufunc1(x, [i \in Idx(x) |-> Cos(x.v[i])])

\* x - y, x * y, x + y
Minus(x, y) == Ufunc2(x, y, [i \in Idx2(x, y) |-> RSub(Elem(x, i), Elem(y, i))])

Times(x, y) == Ufunc2(x, y, [i \in Idx2(x, y) |-> RMul(Elem(x, i), Elem(y, i))])

Plus(x, y) == Ufunc2(x, y, [i \in Idx2(x, y) |-> RAdd(Elem(x, i), Elem(y, i))])

\* Line 155: np.where(abs(h) > 1.0, np.sign(h), h)
np_where_clamp(h) == Ufunc1(h, [i \in Idx(h) |-> Clamp(h.v[i])])

\* Line 156: np.degrees(2 * np.arcsin(np.sqrt(h)))
DegreesOfArc(h) == Ufunc1(h, [i \in Idx(h) |-> Degrees(RMulInt(ArcsinSqrt(h.v[i]), 2))])

\* Lines 123-158
sph_dist(a1_deg, d1_deg, a2_deg, d2_deg) ==
    LET ndarray == AnyNdarray(a1_deg, d1_deg, a2_deg, d2_deg)
        a1   == np_radians(a1_deg)
        d1   == np_radians(d1_deg)
        a2   == np_radians(a2_deg)
        d2   == np_radians(d2_deg)
        dd   == Minus(d1, d2)
        cc   == Times(np_cos(d1), np_cos(d2))
        da   == Minus(a1, a2)
        term == Times(cc, haversine(da))
        h    == np_where_clamp(Plus(haversine(dd), term))
        dist == DegreesOfArc(h)
    IN  IF ~(Broadcastable(d1, d2) /\ Broadcastable(a1, a2) /\ Broadcastable(cc, da)
             /\ Broadcastable(dd, term))
        THEN BroadcastError
        ELSE IF ndarray THEN dist ELSE ToList(dist)

\* The arguments of a call: Python scalars, and ndarrays of up to MaxLen elements.
MaxLen == 2

RaScalars == {0, 300}

RaElems == {0, 60}

DecScalars == {0, 90}

DecElems == {-90, 0}

Arrays(elems) == UNION {[1..n -> elems] : n \in 1..MaxLen}

RaArgs == {Py(x) : x \in RaScalars} \cup {Nd(xs) : xs \in Arrays(RaElems)}

DecArgs == {Py(x) : x \in DecScalars} \cup {Nd(xs) : xs \in Arrays(DecElems)}


(***************************************************************************)
(* The argument lists the constructor is called with: the docstring's      *)
(* examples, values at the rollover and range boundaries, and malformed    *)
(* input.                                                                  *)
(***************************************************************************)
FixedArgs == <<
      <<F(617, 5), S(<<"-", "3", "4", ".", "1", "2">>)>>
    , <<S(<<"3", "5", "9", ".", "9", "9", "9", "9", "9", "9", " ", "0", ".", "9", "9", "9", "9", "9", "9">>)>>
    , <<S(<<"-", "0", ".", "5">>), S(<<"-", "0", ".", "5">>)>>
    , <<I(720), I(-90)>>
    , <<S(<<"1", "8", "0", ".", "0", "0", "0", "0", "0", "1", ",", " ", "0">>)>>
    , <<S(<<"1", "4", ".", "9", "9", "9", "9", "9", "9">>), S(<<"-", "0", ".", "9", "9", "9", "9", "9", "9">>)>>
    , <<S(<<" ", "1", "8", "0", " ">>), S(<<"-", "0", ".", "0">>)>>
    , <<S(<<"1", "2", ":", "0", "1", ":", "0", "2", ".", "3", "4", ",", " ", "-", "3", "4", ":", "1", "2", ":", "3", "4", ".", "1", "1">>)>>
    , <<S(<<"1", "2", " ", "0", "1", " ", "0", "2", ".", "3", "4">>), S(<<"-", "3", "4", "d", "1", "2", "m", "3", "4", ".", "1", "1", "s">>)>>
    , <<S(<<"1", "2", "h", "0", "1", "m", "0", "2", ".", "3", "4", "s">>), S(<<"-", "3", "4", ":", "1", "2", ":", "3", "4", ".", "1", "1">>)>>
    , <<I(12), I(1), F(117, 50), S(<<"-", "3", "4">>), I(12), F(3411, 100)>>
    , <<S(<<"2", "5", " ", "0", " ", "0", " ", "0", " ", "0", " ", "0">>)>>
    , <<S(<<"0", " ", "0", " ", "0", " ", "5", " ", "-", "4", "0", "0", " ", "0">>)>>
    , <<S(<<"0", ":", "0", ":", "0", " ", "-", "0", ":", "0", ":", "0">>)>>
    , <<S(<<"2", "3", " ", "5", "9", " ", "5", "9", ".", "9", "9", "9", "6">>), S(<<"8", "9", " ", "5", "9", " ", "5", "9", ".", "9", "9", "6">>)>>
    , <<S(<<"1", "2", " ", "7", "0", " ", "7", "5">>), S(<<"1", "0", " ", "6", "1", " ", "6", "0">>)>>
    , <<S(<<"-", "1", " ", "0", " ", "0", " ", "0", " ", "0", " ", "0">>)>>
    , <<S(<<"4", "8", " ", "0", " ", "0", " ", "-", "1", " ", "0", " ", "0">>)>>
    , <<S(<<"1", ",", "2", ",", "3">>)>>
    , <<>>
    , <<S(<<"1", " ", "x">>)>>
    , <<S(<<"1", "2", ".", "5", " ", "0", " ", "0", " ", "0", " ", "0", " ", "0">>)>>
    , <<S(<<"5">>)>>
    , <<I(1), I(2), I(3), I(4), I(5), I(6), I(7)>>
    >>

\* Decimal pairs one millionth of a degree below a multiple of 60 (ra) and of 15
\* (dec): the seconds of both round up to 60.
MaxGrid == 6

GridArgs == [k \in 1..MaxGrid |-> <<F(60000000 * k - 1, 1000000), F(1 - 15000000 * k, 1000000)>>]

ArgPool == FixedArgs \o GridArgs

\* Equatorial(*ArgPool[i]) for every argument list of the pool.
PoolCall == [i \in 1..Len(ArgPool) |-> Equatorial(ArgPool[i])]

Delims == {<<":">>, <<" ">>}

(***************************************************************************)
(* State.  The caller binds two names, p (slot 1) and q (slot 2), once     *)
(* each: slot[s] is what the Equatorial(...) call for s gave, src[s] how   *)
(* that call's arguments were formed, out the last rendering read.         *)
(***************************************************************************)
VARIABLES slot, src, out, dcall, dres

vars == <<slot, src, out, dcall, dres>>

Slots == {1, 2}

Absent == [kind |-> "absent", exc |-> "", msg |-> <<>>, self |-> NoObj]

NoSrc == [how |-> "none", args |-> <<>>, delim |-> <<>>]

NoOut == [slot |-> 0, kind |-> "", delim |-> <<>>, text |-> <<>>]

IsObj(s) == slot[s].kind = "object"

Unbound(s) == slot[s].kind = "absent"

\* p = Equatorial(*ArgPool[i])  or  q = Equatorial(*ArgPool[i])
New(s, i) ==
    /\ Unbound(s)
    /\ slot' = [slot EXCEPT ![s] = PoolCall[i]]
    /\ src' = [src EXCEPT ![s] = [how |-> "args", args |-> ArgPool[i], delim |-> <<>>]]
    /\ UNCHANGED <<out, dcall, dres>>

\* q = Equatorial(p.ra_hms, p.dec_dms)
Reparse ==
    /\ IsObj(1)
    /\ Unbound(2)
    /\ LET h    == get_ra_hms(slot[1].self)
           d    == get_dec_dms(h.self)
           args == <<S(h.text), S(d.text)>>
       IN  /\ slot' = [slot EXCEPT ![1].self = d.self, ![2] = Equatorial(args)]
           /\ src' = [src EXCEPT ![2] = [how |-> "rendered", args |-> args,
                                         delim |-> slot[1].self.delim]]
    /\ UNCHANGED <<out, dcall, dres>>

\* q = Equatorial(p.rah, p.ram, p.ras, p.decsign + str(p.decd), p.decm, p.decs)
FromComponents ==
    /\ IsObj(1)
    /\ Unbound(2)
    /\ LET p    == slot[1].self
           args == <<I(p.rah), I(p.ram), F(p.ras.n, p.ras.d),
                     S(<<p.decsign>> \o IntStr(p.decd)), I(p.decm), F(p.decs.n, p.decs.d)>>
       IN  /\ slot' = [slot EXCEPT ![2] = Equatorial(args)]
           /\ src' = [src EXCEPT ![2] = [how |-> "components", args |-> args, delim |-> <<>>]]
    /\ UNCHANGED <<out, dcall, dres>>

\* obj.delim = d
SetDelim(s, d) ==
    /\ IsObj(s)
    /\ slot' = [slot EXCEPT ![s].self.delim = d]
    /\ UNCHANGED <<src, out, dcall, dres>>

Read(s, kind, r) ==
    /\ slot' = [slot EXCEPT ![s].self = r.self]
    /\ out' = [slot |-> s, kind |-> kind, delim |-> slot[s].self.delim, text |-> r.text]
    /\ UNCHANGED <<src, dcall, dres>>

\* obj.ra_hms
ReadRaHms(s) == IsObj(s) /\ Read(s, "ra_hms", get_ra_hms(slot[s].self))

\* obj.dec_dms
ReadDecDms(s) == IsObj(s) /\ Read(s, "dec_dms", get_dec_dms(slot[s].self))

\* str(obj)
ReadStr(s) == IsObj(s) /\ Read(s, "str", Equatorial_str(slot[s].self))

\* r = sph_dist(a1, d1, a2, d2)
CallDist(a1, d1, a2, d2) ==
    /\ dcall' = <<a1, d1, a2, d2>>
    /\ dres' = <<sph_dist(a1, d1, a2, d2)>>
    /\ UNCHANGED <<slot, src, out>>

\* The caller drops the result.
DropDist ==
    /\ dcall # <<>>
    /\ dcall' = <<>>
    /\ dres' = <<>>
    /\ UNCHANGED <<slot, src, out>>

Init ==
    /\ slot = [s \in Slots |-> Absent]
    /\ src = [s \in Slots |-> NoSrc]
    /\ out = NoOut
    /\ dcall = <<>>
    /\ dres = <<>>

Next ==
    \/ \E s \in Slots, i \in 1..Len(ArgPool) : New(s, i)
    \/ Reparse
    \/ FromComponents
    \/ \E s \in Slots, d \in Delims : SetDelim(s, d)
    \/ \E s \in Slots : ReadRaHms(s)
    \/ \E s \in Slots : ReadDecDms(s)
    \/ \E s \in Slots : ReadStr(s)

Spec == Init /\ [][Next]_vars

NextDist ==
    \/ /\ dcall = <<>>
       /\ \E a1 \in RaArgs, d1 \in DecArgs, a2 \in RaArgs, d2 \in DecArgs :
              CallDist(a1, d1, a2, d2)
    \/ DropDist

SpecDist == Init /\ [][NextDist]_vars

(***************************************************************************)
(* Properties.                                                             *)
(***************************************************************************)
Called(s) == src[s].how # "none"

\* The token sequence of an argument list: the space-joined text with each of
\* , : d h m s replaced by a space, split on whitespace.
TokensOf(args) == Split(ReSub(Join(<<" ">>, [i \in 1..Len(args) |-> PyStr(args[i])])))

\* p was built in the 2-token form (a decimal pair).
DecimalPair(s) == Called(s) /\ IsObj(s) /\ Len(TokensOf(src[s].args)) = 2

Stored(o) == <<o.ra, o.dec, o.ra0, o.rah, o.ram, o.ras, o.decsign, o.decd, o.decm, o.decs>>

RaInRange(o) == o.ra.n >= 0 /\ RLt(o.ra, RInt(360))

Ra0InRange(o) == RLt(RInt(-180), o.ra0) /\ RLe(o.ra0, RInt(180))

RaPartsInRange(o) ==
    o.rah \in 0..23 /\ o.ram \in 0..59 /\ o.ras.n >= 0 /\ RLt(o.ras, RInt(60))

DecPartsInRange(o) ==
    o.decd >= 0 /\ o.decm \in 0..59 /\ o.decs.n >= 0 /\ RLt(o.decs, RInt(60))

\* C1: every constructed object, from 2 tokens or from 6, has 0 <= ra < 360 and
\* -180 < ra0 <= 180.
C1_RaNormalised ==
    \A s \in Slots : IsObj(s) => RaInRange(slot[s].self) /\ Ra0InRange(slot[s].self)

\* C5: every constructed object, from 2 tokens or from 6, has rah in 0..23, ram in
\* 0..59, 0 <= ras < 60, decd >= 0, decm in 0..59 and 0 <= decs < 60.
C5_ComponentsInRange ==
    \A s \in Slots : IsObj(s) => RaPartsInRange(slot[s].self) /\ DecPartsInRange(slot[s].self)

\* C6: in every constructed object decsign is "-" exactly when dec < 0, and "+"
\* otherwise.
C6_SignMatchesDec ==
    \A s \in Slots : IsObj(s) =>
        /\ slot[s].self.decsign \in {"+", "-"}
        /\ (slot[s].self.decsign = "-") <=> (slot[s].self.dec.n < 0)

Tolerance == Rat(1, 1000)

Near(a, b) == RLe(RAbs(RSub(a, b)), Tolerance)

\* Within the tolerance as angles: the difference is near 0 or near a full turn.
NearModulo360(a, b) == Near(a, b) \/ RLe(RSub(RInt(360), Tolerance), RAbs(RSub(a, b)))

\* q was built from the renderings of p, a decimal pair with 0 <= ra < 360, under
\* the default delimiter.
Rerendered ==
    /\ src[2].how = "rendered"
    /\ src[2].delim = <<":">>
    /\ DecimalPair(1)
    /\ LET ra_in == ParseFloat(TokensOf(src[1].args)[1]).v
       IN  ra_in.n >= 0 /\ RLt(ra_in, RInt(360))

\* C2 as stated: the object re-parsed from ra_hms and dec_dms has ra and dec within
\* 1e-3 degrees of the first object's, also when the rendered hour wraps to 00.
C2_RenderRoundTrip ==
    Rerendered => /\ IsObj(2)
                  /\ Near(slot[2].self.ra, slot[1].self.ra)
                  /\ Near(slot[2].self.dec, slot[1].self.dec)

\* C2 amended: the re-parsed object has dec within 1e-3 degrees and ra within 1e-3
\* degrees modulo 360 (a rendered hour that wraps from 24 to 00 re-parses to ra 0).
C2_RenderRoundTripModulo ==
    Rerendered => /\ IsObj(2)
                  /\ NearModulo360(slot[2].self.ra, slot[1].self.ra)
                  /\ Near(slot[2].self.dec, slot[1].self.dec)

C2_Witness ==
    /\ Rerendered
    /\ IsObj(2)
    /\ RLt(RInt(359), slot[1].self.ra)
    /\ slot[2].self.ra = RInt(0)

\* C3: when the tokens are not 2 or 6 in number, or one of them is no number, the
\* call raises ValueError and returns no object, whole or partial; for a wrong
\* count the message holds the token list.
C3_FailsAtomically ==
    \A s \in Slots : Called(s) =>
        LET toks == TokensOf(src[s].args)
        IN  (Len(toks) \notin {2, 6} \/ \E i \in 1..Len(toks) : ~ParseFloat(toks[i]).ok)
            => /\ slot[s].kind = "raised"
               /\ slot[s].exc = "ValueError"
               /\ slot[s].self = NoObj
               /\ Len(toks) \notin {2, 6} => slot[s].msg = toks

C3_Witness ==
    /\ slot[1].kind = "raised" /\ Len(slot[1].msg) = 3
    /\ slot[2].kind = "raised" /\ Len(TokensOf(src[2].args)) = 2

\* The fields of a rendering, read back with the constructor's own tokenizer.
Fields(text) == Split(ReSub(text))

\* C4: for an object whose stored components are in range, ra_hms shows hour 00..23,
\* minute 00..59 and seconds at most 59.999, with seconds that format to 60.000
\* shown as 00.000 and carried into the minute, minute 60 shown as 00 and carried
\* into the hour, hour 24 shown as 00; dec_dms shows minute 00..59 and seconds at
\* most 59.99 with the same carries and no wraparound of the degree.
C4_RolloverCarried ==
    /\ (out.kind = "ra_hms" /\ RaPartsInRange(slot[out.slot].self)) =>
        LET o     == slot[out.slot].self
            f     == Fields(out.text)
            carry == FormatF(o.ras, 6, 3) = <<"6", "0", ".", "0", "0", "0">>
            total == o.rah * 60 + o.ram + (IF carry THEN 1 ELSE 0)
        IN  /\ Len(f) = 3 /\ Len(f[1]) = 2 /\ Len(f[2]) = 2 /\ Len(f[3]) = 6
            /\ ParseInt(f[1]).v \in 0..23
            /\ ParseInt(f[2]).v \in 0..59
            /\ RLe(ParseFloat(f[3]).v, Rat(59999, 1000))
            /\ carry => f[3] = <<"0", "0", ".", "0", "0", "0">>
            /\ ~carry => f[3] = FormatF(o.ras, 6, 3)
            /\ ParseInt(f[2]).v = total % 60
            /\ ParseInt(f[1]).v = (total \div 60) % 24
    /\ (out.kind = "dec_dms" /\ DecPartsInRange(slot[out.slot].self)) =>
        LET o     == slot[out.slot].self
            f     == Fields(Tail(out.text))
            carry == FormatF(o.decs, 5, 2) = <<"6", "0", ".", "0", "0">>
            total == o.decd * 60 + o.decm + (IF carry THEN 1 ELSE 0)
        IN  /\ Len(f) = 3 /\ Len(f[2]) = 2 /\ Len(f[3]) = 5
            /\ ParseInt(f[2]).v \in 0..59
            /\ RLe(ParseFloat(f[3]).v, Rat(5999, 100))
            /\ carry => f[3] = <<"0", "0", ".", "0", "0">>
            /\ ~carry => f[3] = FormatF(o.decs, 5, 2)
            /\ ParseInt(f[2]).v = total % 60
            /\ ParseInt(f[1]).v = total \div 60

C4_Witness ==
    /\ out.kind = "ra_hms"
    /\ RaPartsInRange(slot[out.slot].self)
    /\ slot[out.slot].self.rah = 23
    /\ slot[out.slot].self.ram = 59
    /\ FormatF(slot[out.slot].self.ras, 6, 3) = <<"6", "0", ".", "0", "0", "0">>
    /\ Fields(out.text) = <<<<"0", "0">>, <<"0", "0">>, <<"0", "0", ".", "0", "0", "0">>>>

Sexagesimal(whole, min, sec) == RAdd(RAdd(RInt(whole), RDivInt(RInt(min), 60)), RDivInt(sec, 3600))

Swap(text, a, b) == [i \in 1..Len(text) |-> IF text[i] = a THEN b ELSE text[i]]

\* C8: no step after construction (a read of ra_hms, dec_dms or the summary, an
\* assignment to delim) changes the ten stored attributes of an object; a rendering
\* read again under the same delim is the same text, and under another delim the
\* same text with the separator replaced.
C8_ReadsAndDelimKeepStored ==
    [][ /\ \A s \in Slots : IsObj(s) =>
              /\ slot'[s].kind = "object"
              /\ Stored(slot'[s].self) = Stored(slot[s].self)
        /\ (out.slot # 0 /\ out'.slot = out.slot /\ out'.kind = out.kind) =>
              /\ out'.delim = out.delim => out'.text = out.text
              /\ out.kind \in {"ra_hms", "dec_dms"} =>
                    out'.text = Swap(out.text, out.delim[1], out'.delim[1])
        /\ out' # out => out'.delim = slot[out'.slot].self.delim
      ]_vars

C8_Witness ==
    /\ out.kind = "ra_hms"
    /\ out.delim = <<" ">>
    /\ slot[out.slot].self.delim = <<":">>
    /\ slot[out.slot].self.ram = 59
    /\ FormatF(slot[out.slot].self.ras, 6, 3) = <<"6", "0", ".", "0", "0", "0">>

\* C9: two argument lists with the same token sequence give objects with the same
\* ra, dec, ra0, rah, ram, ras, decsign, decd, decm, decs, or both fail.
C9_TokensDecide ==
    \A s, t \in Slots :
        (Called(s) /\ Called(t) /\ TokensOf(src[s].args) = TokensOf(src[t].args)) =>
            /\ slot[s].kind = slot[t].kind
            /\ slot[s].exc = slot[t].exc
            /\ Stored(slot[s].self) = Stored(slot[t].self)

C9_Witness ==
    /\ IsObj(1) /\ IsObj(2)
    /\ src[1].how = "args" /\ src[2].how = "args"
    /\ Len(src[1].args) = 1 /\ Len(src[2].args) = 2
    /\ TokensOf(src[1].args) = TokensOf(src[2].args)
    /\ Len(TokensOf(src[1].args)) = 6

ArgsBroadcast ==
    \A i, j \in 1..4 : Broadcastable(dcall[i], dcall[j])

\* The Python scalar at position i of x: its i-th element, or x itself when x is a
\* scalar or has one element.
ScalarAt(x, i) == [kind |-> "py", v |-> <<Elem(x, i)>>]

\* C10: with an array among the arguments the result is an array of the common
\* shape whose i-th element is the scalar sph_dist of the i-th elements (scalar
\* arguments as they are); with no array the result is a scalar.
C10_Elementwise ==
    (dcall # <<>> /\ ArgsBroadcast) =>
        LET r == dres[1]
            n == Max(Max(Len(dcall[1].v), Len(dcall[2].v)), Max(Len(dcall[3].v), Len(dcall[4].v)))
        IN  IF \E i \in 1..4 : dcall[i].kind = "nd"
            THEN /\ r.kind = "nd"
                 /\ Len(r.v) = n
                 /\ \A i \in 1..n :
                       LET one == sph_dist(ScalarAt(dcall[1], i), ScalarAt(dcall[2], i),
                                           ScalarAt(dcall[3], i), ScalarAt(dcall[4], i))
                       IN  one.kind = "py" /\ r.v[i] = one.v[1]
            ELSE r.kind = "py" /\ Len(r.v) = 1

C10_Witness ==
    /\ dcall # <<>>
    /\ dcall[1].kind = "py" /\ dcall[2].kind = "py"
    /\ dcall[3].kind = "nd" /\ Len(dcall[3].v) = 2
    /\ dcall[4].kind = "nd" /\ Len(dcall[4].v) = 1
    /\ dres[1].kind = "nd"
    /\ dres[1].v = <<RInt(60), RInt(0)>>

====
